---- MODULE Spec2Model ----
(***************************************************************************)
(* Model of scripts/trajectory_gen.py: class TrajectoryGeneration and the  *)
(* __main__ script that drives it.                                         *)
(*                                                                         *)
(* Numbers.  The program computes in floating point.  The model computes   *)
(* in fixed point: every length is an integer count of 1e-5 m, every       *)
(* velocity a count of 1e-5 m/s, every acceleration a count of 1e-5 m/s^2, *)
(* so that  v = (p2 - p1) * FREQUENCY  and  a = (v2 - v1) * FREQUENCY  are *)
(* computed exactly as the source writes them.  Divisions round toward     *)
(* zero at that resolution.  Times are sample counts times the period.     *)
(* A yaw angle atan2(hy, hx) is represented by the direction <<hx, hy>>    *)
(* reduced to lowest terms (yaw 0.0 is <<1, 0>>).                          *)
(***************************************************************************)
EXTENDS Integers, Sequences, FiniteSets, TLC

Metre == 1000 * 100

\* ---- configuration: __init__ (lines 25-37) and the block of __main__ ----
FREQUENCY == 100
PUBLISH_RATE == 10
\* the padding lengths (100 and 100 in the source), scaled down
EXTRA_POINTS_START == 12
EXTRA_POINTS_END == 32
TRAJECTORY_REQUESTED_SPEED == 3 * Metre
MAX_LINEAR_ACC_XY == (15 * Metre) \div 10
MAX_LINEAR_ACC_Z == 2 * Metre
YAW_HEADING == <<"auto", <<1, 0>>>>

\* number of position-feed samples the environment delivers
MaxOdom == 2

\* ---- arithmetic helpers ---------------------------------------------------
Abs(a) == IF a < 0 THEN -a ELSE a

Sign(a) == IF a < 0 THEN -1 ELSE IF a > 0 THEN 1 ELSE 0

Min(a, b) == IF a <= b THEN a ELSE b

\* a / b rounded toward zero (b > 0)
Quot(a, b) == IF a >= 0 THEN a \div b ELSE -((-a) \div b)

RECURSIVE Gcd(_, _)
Gcd(a, b) == IF b = 0 THEN a ELSE Gcd(b, a % b)

\* int(sqrt(n) / q): the largest k with (k*q)^2 <= n
RECURSIVE FloorRootOver(_, _, _)
FloorRootOver(k, n, q) ==
    IF ((k + 1) * q) * ((k + 1) * q) > n THEN k ELSE FloorRootOver(k + 1, n, q)

\* math.sqrt(n) truncated: the largest k with k^2 <= n
RECURSIVE Newton(_, _)
Newton(x, n) ==
    LET y == (x + n \div x) \div 2 IN IF y >= x THEN x ELSE Newton(y, n)

ISqrt(n) == IF n = 0 THEN 0 ELSE Newton(n, n)

\* math.cos and math.sin in fixed point: angles in 1e-4 rad, values in 1e-4
TrigScale == 10000

TwoPi == 62832

\* cos on [0, pi/2] by its Taylor polynomial of degree 8
cos_quadrant(t) ==
    LET S == TrigScale
        y == (t * t) \div S
        h3 == S - y \div 56
        h2 == S - (y * h3) \div (30 * S)
        h1 == S - (y * h2) \div (12 * S)
    IN  S - (y * h1) \div (2 * S)

cos(t) ==
    LET r == Abs(t) % TwoPi
        u == IF 2 * r > TwoPi THEN TwoPi - r ELSE r
    IN  IF 4 * u > TwoPi THEN -cos_quadrant(TwoPi \div 2 - u) ELSE cos_quadrant(u)

sin(t) == cos(t - TwoPi \div 4)

Last(s) == s[Len(s)]

Repeat(v, n) == [i \in 1..n |-> v]

\* an attribute that has not been assigned yet
Unset == << >>

hasattr(a) == a # Unset

\* ---- TrajectoryGeneration.norm / norm2 / saturate -------------------------
\* squared norms, in (1e-3 m)^2 so that the squares fit the integer width
norm_sq(p1, p2) ==
    LET dx == Quot(p2[1] - p1[1], 100)
        dy == Quot(p2[2] - p1[2], 100)
        dz == Quot(p2[3] - p1[3], 100)
    IN  dx * dx + dy * dy + dz * dz

norm2_is_zero(h) == h[1] = 0 /\ h[2] = 0

saturate_unclamped(x, y) == x

\* math.copysign(min(x, y, key=abs), x)
saturate(x, y) ==
    LET m == IF Abs(x) <= Abs(y) THEN x ELSE y
    IN  IF x < 0 THEN -Abs(m) ELSE Abs(m)

\* ---- numpy.linspace(a, b, n, endpoint=True) and a * numpy.ones(n) ---------
linspace(a, b, n) ==
    IF n <= 0 THEN << >>
    ELSE IF n = 1 THEN <<a>>
    ELSE [i \in 1..n |-> a + Sign(b - a) * (((i - 1) * Abs(b - a)) \div (n - 1))]

ones_times(a, n) == IF n <= 0 THEN << >> ELSE Repeat(a, n)

\* x[1:]
Rest(s) == IF Len(s) = 0 THEN << >> ELSE Tail(s)

\* ---- directives ------------------------------------------------------------
Takeoff(z) == [tag |-> "takeoff", p |-> <<0, 0, z>>, d |-> 0]
Hover(cs) == [tag |-> "hover", p |-> <<0, 0, 0>>, d |-> cs]
Vector(x, y, z) == [tag |-> "vector", p |-> <<x, y, z>>, d |-> 0]
Landing == [tag |-> "landing", p |-> <<0, 0, 0>>, d |-> 0]
Circle(x, y, z) == [tag |-> "circle", p |-> <<x, y, z>>, d |-> 0]
\* a directive whose tag discretise_trajectory does not test for (line 102)
Square == [tag |-> "square", p |-> <<0, 0, 0>>, d |-> 0]

delta_l == TRAJECTORY_REQUESTED_SPEED \div FREQUENCY

\* x, y of the circle's sample s (lines 68-75): the radius vector <<dx, dy>>
\* turned by 2 pi s / steps about the center
circle_x(center, dx, dy, s, steps) ==
    LET b == (TwoPi * s) \div steps
    IN  center[1] + Quot(dx * cos(b) - dy * sin(b), TrigScale)

circle_y(center, dx, dy, s, steps) ==
    LET b == (TwoPi * s) \div steps
    IN  center[2] + Quot(dy * cos(b) + dx * sin(b), TrigScale)

\* the samples x, y, z one directive computes (lines 49-99) from the end of
\* the path <<x1, y1, z1>>; hover durations are in 1/100 s.  ok is FALSE when
\* the computation raises (ZeroDivisionError at lines 68-74) or leaves x, y, z
\* unbound (no branch taken: NameError at line 105)
Segment(parameters, x1, y1, z1) ==
    CASE parameters.tag = "vector" ->
           LET steps == FloorRootOver(0, norm_sq(parameters.p, <<x1, y1, z1>>),
                                      delta_l \div 100)
           IN  [ok |-> TRUE,
                x |-> linspace(x1, parameters.p[1], steps),
                y |-> linspace(y1, parameters.p[2], steps),
                z |-> linspace(z1, parameters.p[3], steps)]
      [] parameters.tag = "circle" ->
           LET center == parameters.p
               radius == ISqrt(norm_sq(center, <<x1, y1, z1>>))
               steps == (TwoPi * radius) \div (TrigScale * (delta_l \div 100))
           IN  IF steps = 0
               THEN [ok |-> FALSE, x |-> << >>, y |-> << >>, z |-> << >>]
               ELSE [ok |-> TRUE,
                     x |-> [i \in 1..(steps + 1) |->
                              circle_x(center, x1 - center[1], y1 - center[2], i - 1, steps)],
                     y |-> [i \in 1..(steps + 1) |->
                              circle_y(center, x1 - center[1], y1 - center[2], i - 1, steps)],
                     z |-> [i \in 1..(steps + 1) |-> center[3]]]
      [] parameters.tag = "hover" ->
           LET steps == (parameters.d * FREQUENCY) \div 100
           IN  [ok |-> TRUE,
                x |-> ones_times(x1, steps),
                y |-> ones_times(y1, steps),
                z |-> ones_times(z1, steps)]
      [] parameters.tag = "takeoff" ->
           LET steps == Abs(parameters.p[3] - z1) \div delta_l
           IN  [ok |-> TRUE,
                x |-> ones_times(x1, steps),
                y |-> ones_times(y1, steps),
                z |-> linspace(z1, parameters.p[3], steps)]
      [] parameters.tag = "landing" ->
           LET steps == Abs(z1) \div delta_l
           IN  [ok |-> TRUE,
                x |-> ones_times(x1, steps),
                y |-> ones_times(y1, steps),
                z |-> linspace(z1, -(Metre \div 100), steps)]
      [] OTHER -> [ok |-> FALSE, x |-> << >>, y |-> << >>, z |-> << >>]

\* ---- state -------------------------------------------------------------------
VARIABLES
    pc,                  \* position of the __main__ script
    rospy_shutdown,      \* rospy.is_shutdown()
    is_first_callback,
    odom_count,          \* position-feed samples delivered so far
    first_odom,          \* position carried by the first of them
    WINDOW_FRAME,        \* configured look-ahead, in half points (0.5 is 1)
    MAX_LINEAR_SPEED_XY,
    MAX_LINEAR_SPEED_Z,
    todo_directives,     \* discretise_trajectory calls the script still makes
    done_directives,     \* discretise_trajectory calls made so far
    todo_stages,         \* build-stage calls the script still makes
    done_stages,         \* build-stage calls made so far
    x_discretized, y_discretized, z_discretized,
    ya_discretized, vx_discretized, vy_discretized, vz_discretized,
    ax_discretized, ay_discretized, az_discretized, ti_discretized,
    x_filtered, y_filtered, z_filtered,
    ya_filtered, vx_filtered, vy_filtered, vz_filtered,
    ax_filtered, ay_filtered, az_filtered, ti_filtered,
    s,                   \* cursor of start()
    n_published,         \* messages handed to pub.publish
    joint_trajectory_msg \* the message published last

raw == <<x_discretized, y_discretized, z_discretized,
         ya_discretized, vx_discretized, vy_discretized, vz_discretized,
         ax_discretized, ay_discretized, az_discretized, ti_discretized>>

filtered == <<x_filtered, y_filtered, z_filtered,
              ya_filtered, vx_filtered, vy_filtered, vz_filtered,
              ax_filtered, ay_filtered, az_filtered, ti_filtered>>

config == <<WINDOW_FRAME, MAX_LINEAR_SPEED_XY, MAX_LINEAR_SPEED_Z>>

script == <<todo_directives, done_directives, todo_stages, done_stages>>

feed == <<odom_count, first_odom>>

publisher == <<s, n_published, joint_trajectory_msg>>

vars == <<pc, rospy_shutdown, is_first_callback, feed, config, script,
          raw, filtered, publisher>>

\* ---- inputs ------------------------------------------------------------------
\* positions the position feed reports
OdomPositions == { <<0, 0, 0>>, <<Metre \div 2, -(Metre \div 4), Metre \div 20>> }

\* directive lists the script may hold (lines 730-775 show the forms)
Programs ==
    { <<Takeoff((30 * Metre) \div 100)>>,
      <<Takeoff((30 * Metre) \div 100), Hover(5), Landing>>,
      <<Takeoff((30 * Metre) \div 100),
        Vector((40 * Metre) \div 100, (30 * Metre) \div 100, (30 * Metre) \div 100)>> }

\* build-stage calls the script may make after generate_states (lines 782-786)
StageSgFirst == [name |-> "generate_states_sg_filtered", window_length |-> 5,
            on_filtered |-> FALSE]
StageSgSecond == [name |-> "generate_states_sg_filtered", window_length |-> 3,
             on_filtered |-> TRUE]
StageSmooth == [name |-> "discretise_to_smooth_trajectory", window_length |-> 0,
           on_filtered |-> FALSE]
StageFiltered == [name |-> "generate_states_filtered", window_length |-> 0,
             on_filtered |-> FALSE]
StageYaw == [name |-> "generate_yaw_filtered", window_length |-> 0,
                on_filtered |-> FALSE]

Pipelines ==
    { << >>, <<StageSmooth>>, <<StageFiltered>>, <<StageFiltered, StageYaw>>,
      <<StageSgFirst>>, <<StageSgFirst, StageSgSecond>>,
      <<StageSgFirst, StageSgSecond, StageYaw>> }

\* configurations: the one of __main__ (lines 706-714 over lines 25-37), the
\* same with the constructor's WINDOW_FRAME (line 30), and the same with lower
\* speed limits
Configurations ==
    { [WINDOW_FRAME |-> 10, MAX_LINEAR_SPEED_XY |-> 10 * Metre,
       MAX_LINEAR_SPEED_Z |-> 12 * Metre],
      [WINDOW_FRAME |-> 1, MAX_LINEAR_SPEED_XY |-> 10 * Metre,
       MAX_LINEAR_SPEED_Z |-> 12 * Metre],
      [WINDOW_FRAME |-> 10, MAX_LINEAR_SPEED_XY |-> Metre \div 10,
       MAX_LINEAR_SPEED_Z |-> Metre \div 10] }

\* directive lists that exercise single directives (forms of lines 724-728);
\* Waypoint is where the second directive of a list leaves the path
Waypoint == <<(40 * Metre) \div 100, (30 * Metre) \div 100, (30 * Metre) \div 100>>

SegmentPrograms ==
    { <<Hover(3), Hover(5)>>,
      <<Takeoff((30 * Metre) \div 100), Vector(0, 0, (30 * Metre) \div 100)>>,
      <<Takeoff((30 * Metre) \div 100), Vector(Waypoint[1], Waypoint[2], Waypoint[3]),
        Circle(Waypoint[1], Waypoint[2] + (3 * Metre) \div 100, Waypoint[3])>>,
      <<Takeoff((30 * Metre) \div 100), Vector(Waypoint[1], Waypoint[2], Waypoint[3]),
        Circle(Waypoint[1], Waypoint[2] + (3 * Metre) \div 100, (34 * Metre) \div 100)>>,
      <<Takeoff((30 * Metre) \div 100), Vector(Waypoint[1], Waypoint[2], Waypoint[3]),
        Circle(Waypoint[1], Waypoint[2], Waypoint[3])>>,
      <<Takeoff((30 * Metre) \div 100), Square, Landing>>,
      <<Takeoff((30 * Metre) \div 100),
        Vector((4 * Metre) \div 100, 0, (30 * Metre) \div 100), Landing>> }

\* build-stage calls in other orders than lines 782-786 show: the smoothing
\* stage before or after another filter stage
MixedPipelines ==
    { <<StageSmooth, StageFiltered>>, <<StageSmooth, StageFiltered, StageYaw>>,
      <<StageFiltered, StageSmooth>>, <<StageSmooth, StageSgFirst>>,
      <<StageSmooth, StageSgSecond>> }

\* the configuration of __main__ (lines 706-714)
MainConfiguration ==
    [WINDOW_FRAME |-> 10, MAX_LINEAR_SPEED_XY |-> 10 * Metre,
     MAX_LINEAR_SPEED_Z |-> 12 * Metre]

\* the runs the model starts from: every list, pipeline and configuration of
\* the sets above, and under the configuration of __main__ the
\* single-directive lists unfiltered and one list under the mixed pipelines
Scenarios ==
    [program : Programs, pipeline : Pipelines, configuration : Configurations]
    \cup [program : SegmentPrograms, pipeline : {<< >>},
          configuration : {MainConfiguration}]
    \cup [program : {<<Takeoff((30 * Metre) \div 100),
                       Vector(Waypoint[1], Waypoint[2], Waypoint[3])>>},
          pipeline : MixedPipelines, configuration : {MainConfiguration}]

NoMessage == [seq |-> -1, points |-> << >>]

\* ---- __init__ (lines 17-43) ---------------------------------------------------
Init ==
    /\ pc = "check_callback"
    /\ rospy_shutdown = FALSE
    /\ is_first_callback = FALSE
    /\ odom_count = 0
    /\ first_odom = <<0, 0, 0>>
    /\ \E sc \in Scenarios :
          /\ WINDOW_FRAME = sc.configuration.WINDOW_FRAME
          /\ MAX_LINEAR_SPEED_XY = sc.configuration.MAX_LINEAR_SPEED_XY
          /\ MAX_LINEAR_SPEED_Z = sc.configuration.MAX_LINEAR_SPEED_Z
          /\ todo_directives = sc.program
          /\ todo_stages = sc.pipeline
    /\ done_directives = << >>
    /\ done_stages = << >>
    /\ x_discretized = Repeat(0, EXTRA_POINTS_START)
    /\ y_discretized = Repeat(0, EXTRA_POINTS_START)
    /\ z_discretized = Repeat(0, EXTRA_POINTS_START)
    /\ ya_discretized = Unset /\ vx_discretized = Unset
    /\ vy_discretized = Unset /\ vz_discretized = Unset
    /\ ax_discretized = Unset /\ ay_discretized = Unset
    /\ az_discretized = Unset /\ ti_discretized = Unset
    /\ x_filtered = Unset /\ y_filtered = Unset /\ z_filtered = Unset
    /\ ya_filtered = Unset /\ vx_filtered = Unset /\ vy_filtered = Unset
    /\ vz_filtered = Unset /\ ax_filtered = Unset /\ ay_filtered = Unset
    /\ az_filtered = Unset /\ ti_filtered = Unset
    /\ s = 0
    /\ n_published = 0
    /\ joint_trajectory_msg = NoMessage

Running == pc \notin {"done", "error"}

\* ---- callback (lines 674-683): one sample of the position feed ---------------
callback_seeds_zero(position) ==
    IF ~is_first_callback
    THEN /\ x_discretized' = Repeat(0, EXTRA_POINTS_START)
         /\ y_discretized' = Repeat(0, EXTRA_POINTS_START)
         /\ z_discretized' = Repeat(0, EXTRA_POINTS_START)
         /\ is_first_callback' = TRUE
    ELSE UNCHANGED <<x_discretized, y_discretized, z_discretized,
                     is_first_callback>>

callback_unguarded(position) ==
    /\ x_discretized' = Repeat(position[1], EXTRA_POINTS_START)
    /\ y_discretized' = Repeat(position[2], EXTRA_POINTS_START)
    /\ z_discretized' = Repeat(position[3], EXTRA_POINTS_START)
    /\ is_first_callback' = TRUE

callback(position) ==
    IF ~is_first_callback
    THEN /\ x_discretized' = Repeat(position[1], EXTRA_POINTS_START)
         /\ y_discretized' = Repeat(position[2], EXTRA_POINTS_START)
         /\ z_discretized' = Repeat(position[3], EXTRA_POINTS_START)
         /\ is_first_callback' = TRUE
    ELSE UNCHANGED <<x_discretized, y_discretized, z_discretized,
                     is_first_callback>>

\* The subscriber thread runs callback for each sample the feed delivers; rospy
\* closes the subscription before is_shutdown() turns true.
OdomDelivered ==
    /\ Running
    /\ ~rospy_shutdown
    /\ odom_count < MaxOdom
    /\ \E position \in OdomPositions :
          /\ callback(position)
          /\ first_odom' = IF odom_count = 0 THEN position ELSE first_odom
    /\ odom_count' = odom_count + 1
    /\ UNCHANGED <<pc, rospy_shutdown, config, script, filtered, publisher,
                   ya_discretized, vx_discretized, vy_discretized, vz_discretized,
                   ax_discretized, ay_discretized, az_discretized, ti_discretized>>

\* an external shutdown request
SignalShutdown ==
    /\ Running
    /\ ~rospy_shutdown
    /\ rospy_shutdown' = TRUE
    /\ UNCHANGED <<pc, is_first_callback, feed, config, script, raw, filtered,
                   publisher>>

\* ---- check_callback (lines 685-689) --------------------------------------------
check_callback_ignores_shutdown == is_first_callback

check_callback_returns == rospy_shutdown \/ is_first_callback

check_callback ==
    /\ pc = "check_callback"
    /\ check_callback_returns
    /\ pc' = "discretise_trajectory"
    /\ UNCHANGED <<rospy_shutdown, is_first_callback, feed, config, script, raw,
                   filtered, publisher>>

\* ---- discretise_trajectory (lines 45-109) ---------------------------------------
raises_never(seg) == FALSE

\* the call raises: x, y, z were not computed
raises(seg) == ~seg.ok

discretise_trajectory ==
    /\ pc = "discretise_trajectory"
    /\ todo_directives # << >>
    /\ LET parameters == Head(todo_directives)
           from == <<Last(x_discretized), Last(y_discretized), Last(z_discretized)>>
           seg == Segment(parameters, from[1], from[2], from[3])
           call == [parameters |-> parameters, from |-> from,
                    first |-> Len(x_discretized)]
       IN  IF raises(seg)
           THEN /\ pc' = "error"
                /\ done_directives' = Append(done_directives,
                       [raised |-> TRUE, last |-> Len(x_discretized)] @@ call)
                /\ UNCHANGED <<x_discretized, y_discretized, z_discretized>>
           ELSE /\ pc' = pc
                /\ x_discretized' = x_discretized \o Rest(seg.x)
                /\ y_discretized' = y_discretized \o Rest(seg.y)
                /\ z_discretized' = z_discretized \o Rest(seg.z)
                /\ done_directives' = Append(done_directives,
                       [raised |-> FALSE,
                        last |-> Len(x_discretized) + Len(Rest(seg.x))] @@ call)
    /\ todo_directives' = Tail(todo_directives)
    /\ UNCHANGED <<rospy_shutdown, is_first_callback, feed, config,
                   todo_stages, done_stages, filtered, publisher,
                   ya_discretized, vx_discretized, vy_discretized, vz_discretized,
                   ax_discretized, ay_discretized, az_discretized, ti_discretized>>

\* ---- heading and yaw (lines 413-426, 361-374, 516-529) -------------------------
\* the heading vector before normalisation
HeadingVector(p1, p2) ==
    IF YAW_HEADING[1] = "center"
    THEN <<YAW_HEADING[2][1] * Metre - p1[1], YAW_HEADING[2][2] * Metre - p1[2]>>
    ELSE IF YAW_HEADING[1] = "axes"
    THEN <<YAW_HEADING[2][1] * Metre, YAW_HEADING[2][2] * Metre>>
    ELSE <<p2[1] - p1[1], p2[2] - p1[2]>>

\* heading / norm2(heading), as a direction in lowest terms
Normalised(h) ==
    LET g == Gcd(Abs(h[1]), Abs(h[2])) IN <<Quot(h[1], g), Quot(h[2], g)>>

\* heading = (heading / norm2(heading)) if norm2(heading) != 0 else prevHeading
NextHeading(h, prevHeading) ==
    IF ~norm2_is_zero(h) THEN Normalised(h) ELSE prevHeading

\* math.atan2(heading[1], heading[0]); atan2(0, 0) is 0.0
atan2(heading) == IF norm2_is_zero(heading) THEN <<1, 0>> ELSE heading

\* the yaws the loop appends for steps i..n, given the heading of step i-1
RECURSIVE YawLoop(_, _, _, _, _, _)
YawLoop(xs, ys, i, n, prevHeading, acc) ==
    IF i > n THEN acc
    ELSE LET heading == NextHeading(HeadingVector(<<xs[i], ys[i]>>,
                                                  <<xs[i + 1], ys[i + 1]>>),
                                    prevHeading)
         IN  YawLoop(xs, ys, i + 1, n, heading, Append(acc, atan2(heading)))

\* [.0] and the yaws the loop of lines 410-426 (and 358-374) appends to it
YawWithLeadingZero(xs, ys) ==
    YawLoop(xs, ys, 1, Len(xs) - 1, <<0, 0>>, <<<<1, 0>>>>)

Differences_forward(p, rate) ==
    [i \in 1..Len(p) |-> IF i = 1 \/ i = Len(p) THEN 0 ELSE (p[i + 1] - p[i]) * rate]

\* [0] followed by (p[i+1] - p[i]) * rate
Differences(p, rate) ==
    [i \in 1..Len(p) |-> IF i = 1 THEN 0 ELSE (p[i] - p[i - 1]) * rate]

Seconds_integer_division(i, rate) == 1000 * (i \div rate)

\* elapsed time of sample i (from 0) at the given rate, in 1e-3 s
Seconds(i, rate) == (1000 * i) \div rate

\* ---- generate_states (lines 393-435) ---------------------------------------------
\* the path as it is, without lines 397-399
Padded_by_nothing(p) == p

Padded(p) == p \o Repeat(Last(p), EXTRA_POINTS_END)

generate_states ==
    /\ pc = "discretise_trajectory"
    /\ todo_directives = << >>
    /\ LET x == Padded(x_discretized)
           y == Padded(y_discretized)
           z == Padded(z_discretized)
           vx == Differences(x, FREQUENCY)
           vy == Differences(y, FREQUENCY)
           vz == Differences(z, FREQUENCY)
       IN  /\ x_discretized' = x
           /\ y_discretized' = y
           /\ z_discretized' = z
           /\ ya_discretized' = YawWithLeadingZero(x, y)
           /\ vx_discretized' = vx
           /\ vy_discretized' = vy
           /\ vz_discretized' = vz
           /\ ax_discretized' = Differences(vx, FREQUENCY)
           /\ ay_discretized' = Differences(vy, FREQUENCY)
           /\ az_discretized' = Differences(vz, FREQUENCY)
           /\ ti_discretized' = [i \in 1..Len(x) |-> Seconds(i - 1, FREQUENCY)]
    /\ pc' = "build_stages"
    /\ UNCHANGED <<rospy_shutdown, is_first_callback, feed, config, script,
                   filtered, publisher>>

\* the bookkeeping every build-stage call shares
StageCalled(name) ==
    /\ pc = "build_stages"
    /\ todo_stages # << >>
    /\ Head(todo_stages).name = name
    /\ todo_stages' = Tail(todo_stages)
    /\ done_stages' = Append(done_stages, Head(todo_stages))
    /\ UNCHANGED <<rospy_shutdown, is_first_callback, feed, config,
                   todo_directives, done_directives, raw, publisher>>

\* ---- discretise_to_smooth_trajectory (lines 273-383) -----------------------------
acc_max == <<MAX_LINEAR_ACC_XY, MAX_LINEAR_ACC_XY, MAX_LINEAR_ACC_Z>>

\* np.linalg.norm(v) squared, in (1e-3 m/s)^2
speed_sq(v) == norm_sq(v, <<0, 0, 0>>)

\* np.sign(delta_v) * np.minimum(np.abs(delta_v), acc_max / PUBLISH_RATE)
sat1(dv, k) == Sign(dv) * Min(Abs(dv), acc_max[k] \div PUBLISH_RATE)

delta_v_sat(delta_v) ==
    <<sat1(delta_v[1], 1), sat1(delta_v[2], 2), sat1(delta_v[3], 3)>>

\* the step the cursor takes (lines 330-334)
next_s_inc(vdes, vt_1) ==
    IF speed_sq(vdes) < 300 * 300
    THEN FREQUENCY \div PUBLISH_RATE
    ELSE LET n == FloorRootOver(0, speed_sq(vt_1), (delta_l * PUBLISH_RATE) \div 100)
         IN  IF n > 0 THEN n ELSE 1

\* s_max of line 298 with PUBLISH_RATE / FREQUENCY for the ratio
ratio_inverted == PUBLISH_RATE \div FREQUENCY

ratio == FREQUENCY \div PUBLISH_RATE

\* the while loop (lines 301-347) from cursor c; s holds the values the cursor
\* took; ok is FALSE when a read of x_discretized[s] is out of range
\* (IndexError)
RECURSIVE SmoothLoop(_, _, _, _, _, _, _)
SmoothLoop(c, s_inc, vt_0, cs, xf, yf, zf) ==
    LET s_max == Len(x_discretized) - ratio IN
    IF ~(c < s_max) THEN [ok |-> TRUE, s |-> cs, x |-> xf, y |-> yf, z |-> zf]
    ELSE LET at == IF c + s_inc < s_max THEN c + s_inc + 1 ELSE Len(vx_discretized)
             vdes == <<vx_discretized[at], vy_discretized[at], vz_discretized[at]>>
             dv == delta_v_sat(<<vdes[1] - vt_0[1], vdes[2] - vt_0[2],
                                 vdes[3] - vt_0[3]>>)
             vt_1 == <<vt_0[1] + dv[1], vt_0[2] + dv[2], vt_0[3] + dv[3]>>
             s_inc1 == next_s_inc(vdes, vt_1)
             c1 == c + s_inc1
         IN  IF c1 >= Len(x_discretized)
             THEN [ok |-> FALSE, s |-> Append(cs, c1), x |-> xf, y |-> yf, z |-> zf]
             ELSE SmoothLoop(c1, s_inc1, vt_1, Append(cs, c1),
                             Append(xf, x_discretized[c1 + 1]),
                             Append(yf, y_discretized[c1 + 1]),
                             Append(zf, z_discretized[c1 + 1]))

discretise_to_smooth_trajectory ==
    /\ StageCalled("discretise_to_smooth_trajectory")
    /\ LET r == SmoothLoop(0, 10, <<0, 0, 0>>, <<0>>, <<x_discretized[1]>>,
                           <<y_discretized[1]>>, <<z_discretized[1]>>)
           vx == Differences(r.x, PUBLISH_RATE)
           vy == Differences(r.y, PUBLISH_RATE)
           vz == Differences(r.z, PUBLISH_RATE)
       IN  /\ x_filtered' = r.x
           /\ y_filtered' = r.y
           /\ z_filtered' = r.z
           /\ IF r.ok
              THEN /\ ya_filtered' = YawWithLeadingZero(r.x, r.y)
                   /\ vx_filtered' = vx
                   /\ vy_filtered' = vy
                   /\ vz_filtered' = vz
                   /\ ax_filtered' = Differences(vx, PUBLISH_RATE)
                   /\ ay_filtered' = Differences(vy, PUBLISH_RATE)
                   /\ az_filtered' = Differences(vz, PUBLISH_RATE)
                   /\ ti_filtered' = [i \in 1..Len(r.x) |-> Seconds(i - 1, PUBLISH_RATE)]
                   /\ pc' = pc
              ELSE /\ UNCHANGED <<ya_filtered, vx_filtered, vy_filtered, vz_filtered,
                                  ax_filtered, ay_filtered, az_filtered, ti_filtered>>
                   /\ pc' = "error"

\* ---- generate_states_filtered (lines 437-466) ------------------------------------
\* one axis of the loop of lines 453-464, from sample i of the target velocity vd
RECURSIVE FilteredAxis(_, _, _, _, _, _, _)
FilteredAxis(vd, i, max_acc, max_speed, a, v, x) ==
    IF i > Len(vd) THEN [a |-> a, v |-> v, x |-> x]
    ELSE LET a1 == saturate((vd[i] - Last(v)) * FREQUENCY, max_acc)
             v1 == saturate(Last(v) + Quot(a1, FREQUENCY), max_speed)
             x1 == Last(x) + Quot(v1, FREQUENCY)
         IN  FilteredAxis(vd, i + 1, max_acc, max_speed,
                          Append(a, a1), Append(v, v1), Append(x, x1))

generate_states_filtered ==
    /\ StageCalled("generate_states_filtered")
    /\ LET fx == FilteredAxis(vx_discretized, 2, MAX_LINEAR_ACC_XY, MAX_LINEAR_SPEED_XY,
                              <<0>>, <<0>>, <<x_discretized[1]>>)
           fy == FilteredAxis(vy_discretized, 2, MAX_LINEAR_ACC_XY, MAX_LINEAR_SPEED_XY,
                              <<0>>, <<0>>, <<y_discretized[1]>>)
           fz == FilteredAxis(vz_discretized, 2, MAX_LINEAR_ACC_Z, MAX_LINEAR_SPEED_Z,
                              <<0>>, <<0>>, <<z_discretized[1]>>)
       IN  /\ x_filtered' = fx.x /\ y_filtered' = fy.x /\ z_filtered' = fz.x
           /\ vx_filtered' = fx.v /\ vy_filtered' = fy.v /\ vz_filtered' = fz.v
           /\ ax_filtered' = fx.a /\ ay_filtered' = fy.a /\ az_filtered' = fz.a
    /\ pc' = pc
    /\ UNCHANGED <<ya_filtered, ti_filtered>>

\* ---- generate_states_sg_filtered (lines 468-503) ---------------------------------
\* index j of a series of length n under mode='mirror'
Mirror(j, n) == IF j < 1 THEN 2 - j ELSE IF j > n THEN 2 * n - j ELSE j

RECURSIVE WindowSum(_, _, _, _)
WindowSum(x, i, k, h) ==
    IF k > h THEN 0 ELSE x[Mirror(i + k, Len(x))] + WindowSum(x, i, k + 1, h)

\* signal.savgol_filter(x, window_length, polyorder=1, deriv=0, mode='mirror'):
\* the local linear fit at the centre of a symmetric window is the window's mean
savgol_filter(x, window_length) ==
    LET h == (window_length - 1) \div 2
    IN  [i \in 1..Len(x) |-> Quot(WindowSum(x, i, -h, h), window_length)]

\* one axis of the loop of lines 490-501; v holds the samples rewritten so far
RECURSIVE SgAxis(_, _, _, _, _, _)
SgAxis(vs, i, max_acc, a, v, x) ==
    IF i > Len(vs) THEN [a |-> a, v |-> v, x |-> x]
    ELSE LET a1 == saturate((vs[i] - Last(v)) * FREQUENCY, max_acc)
             v1 == Last(v) + Quot(a1, FREQUENCY)
             x1 == Last(x) + Quot(v1, FREQUENCY)
         IN  SgAxis(vs, i + 1, max_acc, Append(a, a1), Append(v, v1), Append(x, x1))

generate_states_sg_filtered ==
    /\ StageCalled("generate_states_sg_filtered")
    /\ LET on_filtered == Head(todo_stages).on_filtered
           w == Head(todo_stages).window_length
           sx == savgol_filter(IF on_filtered THEN vx_filtered ELSE vx_discretized, w)
           sy == savgol_filter(IF on_filtered THEN vy_filtered ELSE vy_discretized, w)
           sz == savgol_filter(IF on_filtered THEN vz_filtered ELSE vz_discretized, w)
           fx == SgAxis(sx, 2, MAX_LINEAR_ACC_XY, <<0>>, <<sx[1]>>, <<x_discretized[1]>>)
           fy == SgAxis(sy, 2, MAX_LINEAR_ACC_XY, <<0>>, <<sy[1]>>, <<y_discretized[1]>>)
           fz == SgAxis(sz, 2, MAX_LINEAR_ACC_Z, <<0>>, <<sz[1]>>, <<z_discretized[1]>>)
       IN  IF on_filtered /\ ~hasattr(vx_filtered)
           THEN \* AttributeError at line 478, after lines 473-475
                /\ x_filtered' = <<x_discretized[1]>>
                /\ y_filtered' = <<y_discretized[1]>>
                /\ z_filtered' = <<z_discretized[1]>>
                /\ UNCHANGED <<vx_filtered, vy_filtered, vz_filtered,
                               ax_filtered, ay_filtered, az_filtered>>
                /\ pc' = "error"
           ELSE /\ x_filtered' = fx.x /\ y_filtered' = fy.x /\ z_filtered' = fz.x
                /\ vx_filtered' = fx.v /\ vy_filtered' = fy.v /\ vz_filtered' = fz.v
                /\ ax_filtered' = fx.a /\ ay_filtered' = fy.a /\ az_filtered' = fz.a
                /\ pc' = pc
    /\ UNCHANGED <<ya_filtered, ti_filtered>>

\* ---- generate_yaw_filtered (lines 505-536) ----------------------------------------
generate_yaw_filtered ==
    /\ StageCalled("generate_yaw_filtered")
    /\ IF ~hasattr(x_filtered)
       THEN UNCHANGED <<pc, ya_filtered>>
       ELSE IF Len(x_filtered) < Len(vx_filtered) \/ Len(vx_filtered) < 2
       THEN \* IndexError at line 516 or at line 531
            /\ pc' = "error"
            /\ ya_filtered' = Unset
       ELSE LET ya == YawLoop(x_filtered, y_filtered, 1, Len(vx_filtered) - 1,
                              <<0, 0>>, << >>)
            IN  /\ ya_filtered' = Append(ya, Last(ya))
                /\ pc' = pc
    /\ UNCHANGED <<x_filtered, y_filtered, z_filtered, vx_filtered, vy_filtered,
                   vz_filtered, ax_filtered, ay_filtered, az_filtered, ti_filtered>>

\* ---- start (lines 613-663) -----------------------------------------------------------
\* lines 621-631: the series start() reads
Selected ==
    [x  |-> IF hasattr(x_filtered) THEN x_filtered ELSE x_discretized,
     y  |-> IF hasattr(y_filtered) THEN y_filtered ELSE y_discretized,
     z  |-> IF hasattr(z_filtered) THEN z_filtered ELSE z_discretized,
     ya |-> IF hasattr(ya_filtered) THEN ya_filtered ELSE ya_discretized,
     vx |-> IF hasattr(vx_filtered) THEN vx_filtered ELSE vx_discretized,
     vy |-> IF hasattr(vy_filtered) THEN vy_filtered ELSE vy_discretized,
     vz |-> IF hasattr(vz_filtered) THEN vz_filtered ELSE vz_discretized,
     ax |-> IF hasattr(ax_filtered) THEN ax_filtered ELSE ax_discretized,
     ay |-> IF hasattr(ay_filtered) THEN ay_filtered ELSE ay_discretized,
     az |-> IF hasattr(az_filtered) THEN az_filtered ELSE az_discretized,
     ti |-> IF hasattr(ti_filtered) THEN ti_filtered ELSE ti_discretized]

SeriesNames == {"x", "y", "z", "ya", "vx", "vy", "vz", "ax", "ay", "az", "ti"}

\* the step of the commented-out line 616
inc_by_ratio == FREQUENCY \div PUBLISH_RATE

inc == 1

\* lines 615-631: entering start()
start ==
    /\ pc = "build_stages"
    /\ todo_stages = << >>
    /\ s' = 0
    /\ pc' = "start_loop"
    /\ UNCHANGED <<rospy_shutdown, is_first_callback, feed, config, script, raw,
                   filtered, n_published, joint_trajectory_msg>>

cursor_at_end_plus_window(c) == 2 * c >= 2 * Len(Selected.x) + WINDOW_FRAME * inc

\* s >= len(x) - window_points, WINDOW_FRAME being in half points
cursor_at_end(c) == 2 * c >= 2 * Len(Selected.x) - WINDOW_FRAME * inc

\* line 633: the test of the while loop
start_loop_test ==
    /\ pc = "start_loop"
    /\ pc' = IF rospy_shutdown \/ cursor_at_end(s) THEN "done" ELSE "start_publish"
    /\ UNCHANGED <<rospy_shutdown, is_first_callback, feed, config, script, raw,
                   filtered, publisher>>

\* line 646: int(min(window_points, len(x) - s) / inc)
points_in_next_trajectory(c) ==
    (Min(WINDOW_FRAME * inc, 2 * (Len(Selected.x) - c)) \div 2) \div inc

\* lines 649-654: the point built from sample i (from 0)
joint_trajectory_point(i) ==
    LET sel == Selected IN
    [positions |-> <<sel.x[i + 1], sel.y[i + 1], sel.z[i + 1], sel.ya[i + 1]>>,
     velocities |-> <<sel.vx[i + 1], sel.vy[i + 1], sel.vz[i + 1]>>,
     accelerations |-> <<sel.ax[i + 1], sel.ay[i + 1], sel.az[i + 1]>>,
     time_from_start |-> sel.ti[i + 1]]

\* lines 636-663: one pass of the loop body
start_publish ==
    /\ pc = "start_publish"
    /\ LET n == points_in_next_trajectory(s)
           in_range == \A f \in SeriesNames : s + (n - 1) * inc + 1 <= Len(Selected[f])
       IN  IF n > 0 /\ ~in_range
           THEN \* IndexError in lines 650-654
                /\ pc' = "error"
                /\ UNCHANGED publisher
           ELSE /\ joint_trajectory_msg' =
                      [seq |-> s,
                       points |-> [i \in 1..n |-> joint_trajectory_point(s + (i - 1) * inc)]]
                /\ s' = s + inc
                /\ n_published' = n_published + 1
                /\ pc' = "start_loop"
    /\ UNCHANGED <<rospy_shutdown, is_first_callback, feed, config, script, raw,
                   filtered>>

\* ---- the program -----------------------------------------------------------------------
\* the steps of the main thread
Main ==
    \/ check_callback
    \/ discretise_trajectory
    \/ generate_states
    \/ discretise_to_smooth_trajectory
    \/ generate_states_filtered
    \/ generate_states_sg_filtered
    \/ generate_yaw_filtered
    \/ start
    \/ start_loop_test
    \/ start_publish

Next ==
    \/ OdomDelivered
    \/ SignalShutdown
    \/ Main

Spec == Init /\ [][Next]_vars

\* the main thread is never starved: its poll loop (line 687) and its publish
\* loop (lines 633-663) take their next step as long as they have one
FairSpec ==
    /\ Spec
    /\ WF_vars(check_callback)
    /\ WF_vars(start_loop_test)
    /\ WF_vars(start_publish)

\* ---- properties ----------------------------------------------------------------------
InStart == pc \in {"start_loop", "start_publish", "done"}

Published == n_published > 0

AllWithin(series, bound) == \A i \in 1..Len(series) : Abs(series[i]) <= bound

\* the build-stage call made last, "" before the first
LastStage == IF done_stages = << >> THEN "" ELSE Last(done_stages).name

\* C1: when start() runs to completion without a shutdown, the last point of
\* the last message published carries the t of the last sample of the
\* trajectory start() reads.
C1_LastSampleDelivered ==
    (pc = "done" /\ ~rospy_shutdown) =>
        /\ Published
        /\ Len(joint_trajectory_msg.points) > 0
        /\ Last(joint_trajectory_msg.points).time_from_start = Last(Selected.ti)

\* C2: every message published carries min(configured window size, samples
\* remaining from its cursor) points, and so at most the window size.
\* (WINDOW_FRAME is in half points, so the count is doubled.)
C2_PointCountIsMin ==
    Published =>
        /\ 2 * Len(joint_trajectory_msg.points) =
               Min(WINDOW_FRAME, 2 * (Len(Selected.x) - joint_trajectory_msg.seq))
        /\ 2 * Len(joint_trajectory_msg.points) <= WINDOW_FRAME

\* C3: each tick advances the cursor by exactly one sample: the k-th message
\* (from 0) has sequence identifier k and its points are the samples k, k+1, ...
C3_CursorAdvancesByOne ==
    InStart =>
        /\ s = n_published
        /\ Published =>
              /\ joint_trajectory_msg.seq = n_published - 1
              /\ \A i \in 1..Len(joint_trajectory_msg.points) :
                    /\ joint_trajectory_msg.points[i].time_from_start
                          = Selected.ti[n_published - 1 + i]
                    /\ joint_trajectory_msg.points[i].positions[1]
                          = Selected.x[n_published - 1 + i]

C3_Witness ==
    /\ pc = "done"
    /\ n_published >= 3
    /\ Len(joint_trajectory_msg.points) = 5

\* C4: the publishing loop terminates, and once the cursor is at or past
\* len - window, or a shutdown is seen at the top of a tick, no message is
\* published any more.
C4_LoopTerminates ==
    /\ (pc = "start_loop") ~> (pc \in {"done", "error"})
    /\ [][(pc = "start_loop"
            /\ (rospy_shutdown \/ 2 * s >= 2 * Len(Selected.x) - WINDOW_FRAME))
          => (pc' # "start_publish" /\ n_published' = n_published)]_vars
    /\ [][pc = "done" => (pc' = "done" /\ n_published' = n_published)]_vars

C4_Witness ==
    /\ pc = "done"
    /\ ~rospy_shutdown
    /\ Published
    /\ 2 * s >= 2 * Len(Selected.x) - WINDOW_FRAME

\* C5: check_callback returns once a position sample has been received or a
\* shutdown is requested, and only then.
C5_OriginWait ==
    /\ (pc = "check_callback" /\ (rospy_shutdown \/ is_first_callback))
          ~> (pc # "check_callback")
    /\ [][(pc = "check_callback" /\ pc' # "check_callback")
          => (rospy_shutdown \/ is_first_callback)]_vars

C5_Witness ==
    /\ pc = "discretise_trajectory"
    /\ rospy_shutdown
    /\ ~is_first_callback

\* C6: once the first sample has seeded the path, a later callback changes
\* nothing of the engine's state.
C6_LaterCallbacksIgnored ==
    [][(odom_count' # odom_count /\ is_first_callback)
       => UNCHANGED <<pc, is_first_callback, config, script, raw, filtered,
                      publisher>>]_vars

C6_Witness ==
    /\ odom_count = 2
    /\ Published
    /\ hasattr(x_filtered)
    /\ first_odom # <<0, 0, 0>>

\* C7: in a trajectory that reaches start(), the first sample of the raw
\* series, and of the filtered series when there is one, is the position of
\* the first position-feed sample.
C7_FirstSampleIsOrigin ==
    (InStart /\ is_first_callback) =>
        /\ <<x_discretized[1], y_discretized[1], z_discretized[1]>> = first_odom
        /\ hasattr(x_filtered) =>
              <<x_filtered[1], y_filtered[1], z_filtered[1]>> = first_odom

C7_Witness ==
    /\ InStart
    /\ is_first_callback
    /\ first_odom # <<0, 0, 0>>
    /\ hasattr(x_filtered)
    /\ odom_count = 2

\* C8: after generate_states and discretise_to_smooth_trajectory, every
\* sample's acceleration is within the configured maximum of its axis.
C8_SmoothAccelerationBounded ==
    (done_stages = <<StageSmooth>> /\ pc # "error") =>
        /\ AllWithin(ax_filtered, MAX_LINEAR_ACC_XY)
        /\ AllWithin(ay_filtered, MAX_LINEAR_ACC_XY)
        /\ AllWithin(az_filtered, MAX_LINEAR_ACC_Z)

AfterFilter ==
    /\ pc # "error"
    /\ LastStage \in {"generate_states_filtered", "generate_states_sg_filtered"}

\* C9: after generate_states_filtered and after generate_states_sg_filtered
\* (first or second pass), every filtered acceleration is within the
\* configured maximum of its axis.
C9_FilterAccelerationBounded ==
    AfterFilter =>
        /\ AllWithin(ax_filtered, MAX_LINEAR_ACC_XY)
        /\ AllWithin(ay_filtered, MAX_LINEAR_ACC_XY)
        /\ AllWithin(az_filtered, MAX_LINEAR_ACC_Z)

C9_Witness ==
    /\ AfterFilter
    /\ Len(done_stages) = 2
    /\ \E i \in 1..Len(az_filtered) : az_filtered[i] = MAX_LINEAR_ACC_Z
    /\ \E i \in 1..Len(ax_filtered) : ax_filtered[i] = -MAX_LINEAR_ACC_XY

\* C10: after either filter, every filtered velocity is within the configured
\* maximum speed of its axis.
C10_FilterVelocityBounded ==
    AfterFilter =>
        /\ AllWithin(vx_filtered, MAX_LINEAR_SPEED_XY)
        /\ AllWithin(vy_filtered, MAX_LINEAR_SPEED_XY)
        /\ AllWithin(vz_filtered, MAX_LINEAR_SPEED_Z)

\* ---- properties of discretise_trajectory ------------------------------------------
\* the calls of discretise_trajectory made so far
Calls == {done_directives[k] : k \in 1..Len(done_directives)}

\* the indices (from 1) of the samples a call appended
AppendedBy(c) == (c.first + 1)..c.last

Recognised == {"vector", "circle", "hover", "takeoff", "landing"}

\* C11: a vector whose target is the end of the path, and a circle whose
\* center is the end of the path, return without raising and append nothing.
C11_DegenerateIsNoOp ==
    \A c \in Calls :
        (c.parameters.tag \in {"vector", "circle"} /\ c.parameters.p = c.from)
            => (~c.raised /\ AppendedBy(c) = {})

\* C12: a directive with an unrecognised tag makes discretise_trajectory
\* raise, the run ends there: no later directive, no build stage, no message.
C12_UnknownTagIsFatal ==
    \A k \in 1..Len(done_directives) :
        done_directives[k].parameters.tag \notin Recognised
            => /\ done_directives[k].raised
               /\ pc = "error"
               /\ Len(done_directives) = k
               /\ ~hasattr(vx_discretized)
               /\ done_stages = << >>
               /\ n_published = 0

C12_Witness ==
    /\ pc = "error"
    /\ Len(done_directives) = 2
    /\ done_directives[2].parameters = Square
    /\ todo_directives = <<Landing>>
    /\ first_odom # <<0, 0, 0>>

\* C13: a hover of duration d appends d x FREQUENCY samples, each the position
\* of the end of the path before it.
C13_HoverSampleCount ==
    \A c \in Calls :
        c.parameters.tag = "hover"
            => /\ c.last - c.first = (c.parameters.d * FREQUENCY) \div 100
               /\ \A i \in AppendedBy(c) :
                     <<x_discretized[i], y_discretized[i], z_discretized[i]>> = c.from

\* C14: [takeoff h, hover d, landing] from the origin: z rises monotonically
\* from 0 to h, is h at exactly d x FREQUENCY samples, then descends
\* monotonically from h to 0, no faster than the configured step per sample;
\* x and y are 0 throughout.
C14_TakeoffHoverLand ==
    (/\ Len(done_directives) = 3
     /\ done_directives[1].parameters.tag = "takeoff"
     /\ done_directives[2].parameters.tag = "hover"
     /\ done_directives[3].parameters.tag = "landing"
     /\ done_directives[1].from = <<0, 0, 0>>)
    => LET h == done_directives[1].parameters.p[3]
           up == done_directives[1].last
           down == done_directives[3].first
           end == done_directives[3].last
       IN  /\ z_discretized[1] = 0
           /\ \A i \in 1..(up - 1) : z_discretized[i] <= z_discretized[i + 1]
           /\ z_discretized[up] = h
           /\ Cardinality({i \in 1..end : z_discretized[i] = h})
                 = (done_directives[2].parameters.d * FREQUENCY) \div 100
           /\ \A i \in down..(end - 1) : z_discretized[i] >= z_discretized[i + 1]
           /\ \A i \in down..(end - 1) : z_discretized[i] - z_discretized[i + 1] <= delta_l
           /\ z_discretized[end] = 0
           /\ \A i \in 1..end : x_discretized[i] = 0 /\ y_discretized[i] = 0

\* C15: for a vector from A to B, (samples appended) x delta_l is within one
\* delta_l of the distance from A to B (compared in 1e-3 m, squared).
C15_VectorSampleCount ==
    \A c \in Calls :
        (c.parameters.tag = "vector" /\ ~c.raised)
            => LET n == c.last - c.first
                   q == delta_l \div 100
                   d2 == norm_sq(c.parameters.p, c.from)
               IN  /\ ((n + 1) * q) * ((n + 1) * q) >= d2
                   /\ n >= 1 => ((n - 1) * q) * ((n - 1) * q) <= d2

\* C19: every sample a circle appends has the z of the end of the path at the
\* moment the circle started.
C19_CircleHoldsAltitude ==
    \A c \in Calls :
        c.parameters.tag = "circle"
            => \A i \in AppendedBy(c) : z_discretized[i] = c.from[3]

\* ---- properties of the series handed to start() -----------------------------------
\* the yaw series the loop of lines 515-531 computes from positions xs, ys
YawWithRepeatedLast(xs, ys) ==
    LET ya == YawLoop(xs, ys, 1, Len(xs) - 1, <<0, 0>>, << >>)
    IN  IF ya = << >> THEN << >> ELSE Append(ya, Last(ya))

\* C16: once a filter stage has produced positions, the yaw start() publishes
\* is the yaw computed from the filtered positions.
C16_YawFromFilteredPath ==
    (Published /\ hasattr(x_filtered))
        => /\ hasattr(ya_filtered)
           /\ \A i \in 1..Len(joint_trajectory_msg.points) :
                 joint_trajectory_msg.points[i].positions[4]
                    = ya_filtered[joint_trajectory_msg.seq + i]
           /\ ya_filtered \in {YawWithLeadingZero(x_filtered, y_filtered),
                                YawWithRepeatedLast(x_filtered, y_filtered)}

\* the step of t in the series start() reads, in 1e-3 s
TimeStep == IF hasattr(ti_filtered) THEN 1000 \div PUBLISH_RATE ELSE 1000 \div FREQUENCY

\* C17: in the series start() reads, t starts at 0 and grows by one fixed step
\* between consecutive samples: 1/PUBLISH_RATE after
\* discretise_to_smooth_trajectory, 1/FREQUENCY otherwise.
C17_TimeGrowsByFixedStep ==
    InStart
        => /\ Selected.ti[1] = 0
           /\ \A i \in 1..(Len(Selected.ti) - 1) :
                 Selected.ti[i + 1] - Selected.ti[i] = TimeStep

C17_Witness ==
    /\ pc = "done"
    /\ Published
    /\ hasattr(ti_filtered)
    /\ Len(Selected.ti) >= 6
    /\ Last(Selected.ti) = (Len(Selected.ti) - 1) * (1000 \div PUBLISH_RATE)

\* the epsilon of the heading rule, 1e-3 m
Epsilon == Metre \div 1000

BelowEpsilon(h) ==
    /\ Abs(h[1]) < Epsilon
    /\ Abs(h[2]) < Epsilon
    /\ h[1] * h[1] + h[2] * h[2] < Epsilon * Epsilon

\* C18: a sample whose heading vector is shorter than epsilon has the yaw of
\* the sample before it, in the series of generate_states and in the series of
\* generate_yaw_filtered.
C18_HeadingHeldBelowEpsilon ==
    /\ hasattr(ya_discretized)
          => \A i \in 1..(Len(x_discretized) - 1) :
                BelowEpsilon(HeadingVector(<<x_discretized[i], y_discretized[i]>>,
                                           <<x_discretized[i + 1], y_discretized[i + 1]>>))
                   => ya_discretized[i + 1] = ya_discretized[i]
    /\ (LastStage = "generate_yaw_filtered" /\ pc # "error" /\ hasattr(ya_filtered))
          => \A i \in 2..(Len(vx_filtered) - 1) :
                BelowEpsilon(HeadingVector(<<x_filtered[i], y_filtered[i]>>,
                                           <<x_filtered[i + 1], y_filtered[i + 1]>>))
                   => ya_filtered[i] = ya_filtered[i - 1]

\* the claim of C20 holds of positions p, velocities v and accelerations a when
\* v[i] is the difference of p that ends (forward = FALSE) or starts
\* (forward = TRUE) at sample i
DifferencesOf(p, v, a, forward) ==
    /\ Len(v) = Len(p) /\ Len(a) = Len(p)
    /\ v[1] = 0 /\ a[1] = 0
    /\ \A i \in 2..Len(p) :
          /\ a[i] = (v[i] - v[i - 1]) * FREQUENCY
          /\ IF forward
             THEN i < Len(p) => v[i] = (p[i + 1] - p[i]) * FREQUENCY
             ELSE v[i] = (p[i] - p[i - 1]) * FREQUENCY

\* C20 as stated: generate_states gives v[0] = a[0] = 0 and, for later i,
\* v[i] = (p[i+1] - p[i]) * f and a[i] = (v[i] - v[i-1]) * f.
C20_ForwardDifferences ==
    hasattr(vx_discretized)
        => /\ DifferencesOf(x_discretized, vx_discretized, ax_discretized, TRUE)
           /\ DifferencesOf(y_discretized, vy_discretized, ay_discretized, TRUE)
           /\ DifferencesOf(z_discretized, vz_discretized, az_discretized, TRUE)

\* C20 as amended: generate_states gives v[0] = a[0] = 0 and, for later i,
\* v[i] = (p[i] - p[i-1]) * f and a[i] = (v[i] - v[i-1]) * f.
C20_BackwardDifferences ==
    hasattr(vx_discretized)
        => /\ DifferencesOf(x_discretized, vx_discretized, ax_discretized, FALSE)
           /\ DifferencesOf(y_discretized, vy_discretized, ay_discretized, FALSE)
           /\ DifferencesOf(z_discretized, vz_discretized, az_discretized, FALSE)

C20_Witness ==
    /\ hasattr(vx_discretized)
    /\ \E i \in 2..Len(vx_discretized) : vx_discretized[i] # 0 /\ vy_discretized[i] # 0
    /\ \E i \in 2..Len(vz_discretized) : vz_discretized[i] # 0 /\ az_discretized[i] < 0

\* C21: whatever build stages followed generate_states, the eleven series
\* start() selects have one common length, so no read of index s+i while a
\* message is built is out of range
C21_SelectedSeriesSameLength ==
    InStart => \A f \in SeriesNames : Len(Selected[f]) = Len(Selected.x)

\* C22: every message start() publishes carries at least one trajectory
\* point, under every configured WINDOW_FRAME, the constructor's 0.5 included
C22_EveryMessageHasAPoint ==
    Published => Len(joint_trajectory_msg.points) >= 1

\* ---- properties of the cursor of discretise_to_smooth_trajectory ----------------------
SmoothCalled ==
    \E k \in 1..Len(done_stages) : done_stages[k].name = "discretise_to_smooth_trajectory"

\* the values the cursor s took in the loop of lines 301-347 (the raw series
\* are not written after generate_states)
SmoothCursor ==
    SmoothLoop(0, 10, <<0, 0, 0>>, <<0>>, <<x_discretized[1]>>,
               <<y_discretized[1]>>, <<z_discretized[1]>>).s

\* C23: in discretise_to_smooth_trajectory every value the cursor takes by
\* s = s + s_inc is at most the last index of the raw path, so the reads of
\* x_discretized[s], y_discretized[s], z_discretized[s] are in range and the
\* call does not raise
C23_SmoothCursorInRange ==
    SmoothCalled =>
        /\ \A k \in 1..Len(SmoothCursor) : SmoothCursor[k] <= Len(x_discretized) - 1
        /\ LastStage = "discretise_to_smooth_trajectory" => pc # "error"

\* the stage ran over a path it crossed with steps of the variable size (not
\* the 10 of line 331) and left the loop by the test of line 301
C23_Witness ==
    /\ LastStage = "discretise_to_smooth_trajectory"
    /\ pc # "error"
    /\ Len(x_filtered) = Len(SmoothCursor)
    /\ Last(SmoothCursor) >= Len(x_discretized) - ratio
    /\ \E k \in 2..Len(SmoothCursor) : SmoothCursor[k] - SmoothCursor[k - 1] = 1
    /\ \E k \in 2..Len(SmoothCursor) :
          /\ SmoothCursor[k] - SmoothCursor[k - 1] \notin {1, ratio}
          /\ SmoothCursor[k] > EXTRA_POINTS_START

\* ---- properties of the end of the path ---------------------------------------------------
\* where a takeoff, vector or landing directive is to leave the path
Target(c) ==
    CASE c.parameters.tag = "takeoff" -> <<c.from[1], c.from[2], c.parameters.p[3]>>
      [] c.parameters.tag = "vector" -> c.parameters.p
      [] c.parameters.tag = "landing" -> <<c.from[1], c.from[2], -(Metre \div 100)>>
      [] OTHER -> c.from

\* the end of the path when call c returned
EndAfter(c) == <<x_discretized[c.last], y_discretized[c.last], z_discretized[c.last]>>

\* C24: after a takeoff, vector or landing directive whose target is not the
\* end of the path, the path ends exactly at the target, however short the
\* distance to it
C24_PathEndsAtTarget ==
    \A c \in Calls :
        (/\ c.parameters.tag \in {"takeoff", "vector", "landing"}
         /\ ~c.raised
         /\ Target(c) # c.from)
        => EndAfter(c) = Target(c)

\* the last sample of a position, velocity and acceleration series is at rest
\* at position q
AtRest(x, y, z, vx, vy, vz, ax, ay, az, q) ==
    /\ <<Last(x), Last(y), Last(z)>> = q
    /\ <<Last(vx), Last(vy), Last(vz)>> = <<0, 0, 0>>
    /\ <<Last(ax), Last(ay), Last(az)>> = <<0, 0, 0>>

\* C25: after generate_states, and after discretise_to_smooth_trajectory run
\* on its result, the last sample has zero velocity and zero acceleration on
\* every axis and lies where the last directive left the path
C25_EndsAtRest ==
    (hasattr(vx_discretized) /\ done_directives # << >>) =>
        LET q == EndAfter(Last(done_directives)) IN
        /\ AtRest(x_discretized, y_discretized, z_discretized,
                  vx_discretized, vy_discretized, vz_discretized,
                  ax_discretized, ay_discretized, az_discretized, q)
        /\ (LastStage = "discretise_to_smooth_trajectory" /\ pc # "error") =>
               AtRest(x_filtered, y_filtered, z_filtered,
                      vx_filtered, vy_filtered, vz_filtered,
                      ax_filtered, ay_filtered, az_filtered, q)

\* the smoothed path of a list that ends with a move in x, y and z away from
\* where it started
C25_Witness ==
    /\ LastStage = "discretise_to_smooth_trajectory"
    /\ pc # "error"
    /\ Last(done_directives).parameters.tag = "vector"
    /\ Last(done_directives).last > Last(done_directives).first
    /\ \E i \in 1..Len(vx_filtered) : vx_filtered[i] # 0 /\ vz_filtered[i] # 0
    /\ \E i \in 1..Len(vx_discretized) : vx_discretized[i] # 0 /\ az_discretized[i] # 0
    /\ Last(x_filtered) # x_filtered[1]

============================================================================
